---- MODULE Spec2Model ----
(***************************************************************************)
(* A model of the two command-line tools of dividendsomatic:               *)
(*   tools/yfinance_fetch.py     the broker -> Yahoo ticker translator     *)
(*   scripts/extract_lynx_pdfs.py the PDF extractor and its batch driver   *)
(* Strings are sequences of one-character strings, so that the string      *)
(* operations of the code (endswith, replace, zfill, regex matches) are    *)
(* computed character by character.                                        *)
(***************************************************************************)
EXTENDS Integers, Sequences, FiniteSets, TLC

VARIABLES
    \* get_yahoo_symbol: its arguments, its local and its results
    ib_symbol, exchange, symbol, yahoo_symbol, yahoo_again,
    \* extract_dividends_pdf: the PDF read, and its locals records and unique
    pdf, records, unique,
    \* main: the sorted list of PDF files and the number of the file the loop is
    \* at, the four accumulators, the files written, and what each iteration
    \* did (the lines main and the routines print), in order
    pdf_files, file_no, all_dividends, all_9a_trades, all_16b_summaries,
    all_costs, written, log,
    \* cmd_dividends: its argument, the holdings read from the database, the
    \* number of the entry the loop is at, what each fetch did, in order, and
    \* the files of csv_data/dividends
    args_symbol, symbols, entry_no, fetched, saved,
    \* parse_dividend_row and parse_9a_trade_row: the row, the local date_str of
    \* parse_dividend_row, and the two results
    table_row, date_token, dividend_record, trade_record,
    \* the program counter of the tool being run
    pc

symvars == <<ib_symbol, exchange, symbol, yahoo_symbol, yahoo_again>>
docvars == <<pdf, records, unique>>
batchvars == <<pdf_files, file_no, all_dividends, all_9a_trades,
               all_16b_summaries, all_costs, written, log>>
fetchvars == <<args_symbol, symbols, entry_no, fetched, saved>>
rowvars == <<table_row, date_token, dividend_record, trade_record>>
vars == <<symvars, docvars, batchvars, fetchvars, rowvars, pc>>

\* the variables of a tool that is not the one being run
SymIdle ==
    /\ ib_symbol = <<>> /\ exchange = ""
    /\ symbol = <<>> /\ yahoo_symbol = <<>> /\ yahoo_again = <<>>

DocIdle == pdf = <<>> /\ records = <<>> /\ unique = <<>>

BatchIdle ==
    /\ pdf_files = <<>> /\ file_no = 1
    /\ all_dividends = <<>> /\ all_9a_trades = <<>>
    /\ all_16b_summaries = <<>> /\ all_costs = <<>>
    /\ written = <<>> /\ log = <<>>

FetchIdle ==
    /\ args_symbol = <<>> /\ symbols = <<>> /\ entry_no = 1
    /\ fetched = <<>> /\ saved = <<>>

RowIdle ==
    /\ table_row = <<>> /\ date_token = <<>>
    /\ dividend_record = <<>> /\ trade_record = <<>>

----------------------------------------------------------------------------
(* Characters and strings *)

Digits == {"0","1","2","3","4","5","6","7","8","9"}

Upper == {"A","B","C","D","E","F","G","H","I","J","K","L","M",
          "N","O","P","Q","R","S","T","U","V","W","X","Y","Z"}

\* str.endswith(suffix)
EndsWith(s, suffix) ==
    /\ Len(suffix) <= Len(s)
    /\ SubSeq(s, Len(s) - Len(suffix) + 1, Len(s)) = suffix

\* str.startswith(prefix, at): prefix stands in s at index at (1-based)
MatchAt(s, at, prefix) ==
    /\ at + Len(prefix) - 1 <= Len(s)
    /\ SubSeq(s, at, at + Len(prefix) - 1) = prefix

\* sub in s
Contains(s, sub) == \E at \in 1..(Len(s) + 1) : MatchAt(s, at, sub)

\* str.replace(old, new), old non-empty: every non-overlapping occurrence,
\* scanning from the left
RECURSIVE Replace(_, _, _)
Replace(s, old, new) ==
    IF s = <<>> THEN <<>>
    ELSE IF MatchAt(s, 1, old)
         THEN new \o Replace(SubSeq(s, Len(old) + 1, Len(s)), old, new)
         ELSE <<Head(s)>> \o Replace(Tail(s), old, new)

\* str.isdigit(): non-empty and every character a digit
IsDigit(s) == s # <<>> /\ \A i \in 1..Len(s) : s[i] \in Digits

\* str.zfill(width) of a string with no sign
RECURSIVE ZFill(_, _)
ZFill(s, width) == IF Len(s) >= width THEN s ELSE ZFill(<<"0">> \o s, width)

----------------------------------------------------------------------------
(* tools/yfinance_fetch.py: the ticker translator *)

\* IB exchange -> Yahoo Finance suffix
EXCHANGE_SUFFIX ==
       "HEX" :> <<".","H","E">>
    @@ "SFB" :> <<".","S","T">>
    @@ "OSE" :> <<".","O","L">>
    @@ "TSE" :> <<".","T","O">>
    @@ "TSEJ" :> <<".","T">>
    @@ "SBF" :> <<".","P","A">>
    @@ "FWB" :> <<".","F">>
    @@ "FWB2" :> <<".","F">>
    @@ "IBIS" :> <<".","D","E">>
    @@ "LSE" :> <<".","L">>
    @@ "SEHK" :> <<".","H","K">>
    @@ "NYSE" :> <<>>
    @@ "NASDAQ" :> <<>>
    @@ "ARCA" :> <<>>
    @@ "AMEX" :> <<>>

\* (ib_symbol, exchange) -> yahoo_symbol
SYMBOL_OVERRIDES ==
       <<<<"E","Q","N","R","o">>, "OSE">> :> <<"E","Q","N","R",".","O","L">>   \* EQNRo -> EQNR.OL
    @@ <<<<"F","R","O","o">>, "OSE">> :> <<"F","R","O",".","O","L">>   \* FROo -> FRO.OL
    @@ <<<<"N","H","Y","o">>, "OSE">> :> <<"N","H","Y",".","O","L">>   \* NHYo -> NHY.OL
    @@ <<<<"Y","A","R","o">>, "OSE">> :> <<"Y","A","R",".","O","L">>   \* YARo -> YAR.OL
    @@ <<<<"1","1">>, "SEHK">> :> <<"0","0","1","1",".","H","K">>   \* 11 -> 0011.HK
    @@ <<<<"6","6","9">>, "SEHK">> :> <<"0","6","6","9",".","H","K">>   \* 669 -> 0669.HK
    @@ <<<<"7","0","0">>, "SEHK">> :> <<"0","7","0","0",".","H","K">>   \* 700 -> 0700.HK
    @@ <<<<"9","1","6">>, "SEHK">> :> <<"0","9","1","6",".","H","K">>   \* 916 -> 0916.HK
    @@ <<<<"S","G","R",".","U","N">>, "TSE">> :> <<"S","G","R","-","U","N",".","T","O">>   \* SGR.UN -> SGR-UN.TO
    @@ <<<<"A","D",".","U","N">>, "TSE">> :> <<"A","D","-","U","N",".","T","O">>   \* AD.UN -> AD-UN.TO
    @@ <<<<"A","P",".","U","N">>, "TSE">> :> <<"A","P","-","U","N",".","T","O">>   \* AP.UN -> AP-UN.TO
    @@ <<<<"R","N","R"," ","P","R","F">>, "NYSE">> :> <<"R","N","R","-","P","F">>   \* RNR PRF -> RNR-PF
    @@ <<<<"C","I","M"," ","P","R","A">>, "NYSE">> :> <<"C","I","M","-","P","A">>   \* CIM PRA -> CIM-PA
    @@ <<<<"C","I","M"," ","P","R","B">>, "NYSE">> :> <<"C","I","M","-","P","B">>   \* CIM PRB -> CIM-PB
    @@ <<<<"K","E","K">>, "HEX">> :> <<"K","E","S","K","O","B",".","H","E">>   \* KEK -> KESKOB.HE
    @@ <<<<"F","O","T">>, "HEX">> :> <<"F","O","R","T","U","M",".","H","E">>   \* FOT -> FORTUM.HE
    @@ <<<<"0","4","Q">>, "HEX">> :> <<"N","D","A","-","F","I",".","H","E">>   \* 04Q -> NDA-FI.HE
    @@ <<<<"N","2","S">>, "HEX">> :> <<"M","A","N","T","A",".","H","E">>   \* N2S -> MANTA.HE
    @@ <<<<"R","P","L">>, "HEX">> :> <<"U","P","M",".","H","E">>   \* RPL -> UPM.HE
    @@ <<<<"O","U","T","A">>, "HEX">> :> <<"O","U","T","1","V",".","H","E">>   \* OUTA -> OUT1V.HE
    @@ <<<<"O","F","K">>, "HEX">> :> <<"O","R","N","B","V",".","H","E">>   \* OFK -> ORNBV.HE
    @@ <<<<"N","E","F">>, "HEX">> :> <<"N","E","S","T","E",".","H","E">>   \* NEF -> NESTE.HE
    @@ <<<<"T","L","S">>, "HEX">> :> <<"T","E","L","I","A","1",".","H","E">>   \* TLS -> TELIA1.HE
    @@ <<<<"2","A","4","1">>, "HEX">> :> <<"A","K","T","I","A",".","H","E">>   \* 2A41 -> AKTIA.HE
    @@ <<<<"S","T","E","A","V","h">>, "HEX">> :> <<"S","T","E","A","V",".","H","E">>   \* STEAVh -> STEAV.HE
    @@ <<<<"T","O","K","M","A","h">>, "HEX">> :> <<"T","O","K","M","A","N",".","H","E">>   \* TOKMAh -> TOKMAN.HE
    @@ <<<<"T","T","E","B">>, "HEX">> :> <<"T","I","E","T","O",".","H","E">>   \* TTEB -> TIETO.HE
    @@ <<<<"R","A","U","A">>, "FWB">> :> <<"R","A","U","T","E",".","H","E">>   \* RAUA -> RAUTE.HE
    @@ <<<<"T","E","L","I","A","1">>, "FWB">> :> <<"T","E","L","I","A","1",".","H","E">>   \* TELIA1 -> TELIA1.HE
    @@ <<<<"B","E","W">>, "FWB2">> :> <<"B","E","W",".","F">>   \* BEW -> BEW.F
    @@ <<<<"G","K","E">>, "FWB2">> :> <<"G","K","E",".","F">>   \* GKE -> GKE.F
    @@ <<<<"C","V","Z">>, "FWB2">> :> <<"C","V","Z",".","F">>   \* CVZ -> CVZ.F
    @@ <<<<"G","O","G","L">>, "NASDAQ">> :> <<"G","O","G","L">>   \* GOGL -> GOGL
    @@ <<<<"P","T","M","N">>, "NASDAQ">> :> <<"P","T","M","N">>   \* PTMN -> PTMN

\* EXCHANGE_SUFFIX.get(exchange, "")
SuffixOf(e) == IF e \in DOMAIN EXCHANGE_SUFFIX THEN EXCHANGE_SUFFIX[e] ELSE <<>>

\* the non-empty values of EXCHANGE_SUFFIX
KnownSuffixes == {EXCHANGE_SUFFIX[e] : e \in DOMAIN EXCHANGE_SUFFIX} \ {<<>>}

\* symbol[:-1] when the symbol ends in the letter and is longer than one character
StripTrailing(s, letter) ==
    IF EndsWith(s, <<letter>>) /\ Len(s) > 1 THEN SubSeq(s, 1, Len(s) - 1) ELSE s

\* re.match(r"^(.+)-PR([A-Z])$", symbol) and the rewrite to "<group 1>-P<group 2>"
PreferredRewrite(s) ==
    LET n == Len(s) IN
    IF /\ n >= 5
       /\ s[n] \in Upper
       /\ SubSeq(s, n - 3, n - 1) = <<"-","P","R">>
    THEN SubSeq(s, 1, n - 4) \o <<"-","P">> \o <<s[n]>>
    ELSE s

USExchanges == {"NYSE", "NASDAQ", "AMEX", "ARCA"}

\* a mutant of RewriteSymbol: the preferred-share rewrite runs before the
\* spaces become hyphens
RewriteSymbol_PreferredFirst(ib, e) ==
    LET p0 == IF e \in USExchanges THEN PreferredRewrite(ib) ELSE ib
        s0 == Replace(p0, <<" ">>, <<"-">>)
        s1 == IF e = "OSE" THEN StripTrailing(s0, "o") ELSE s0
        s2 == IF e = "HEX" THEN StripTrailing(s1, "h") ELSE s1
        s3 == IF e = "SEHK" /\ IsDigit(s2) THEN ZFill(s2, 4) ELSE s2
        s4 == IF e = "TSE" /\ Contains(s3, <<".","U","N">>)
              THEN Replace(s3, <<".","U","N">>, <<"-","U","N">>) ELSE s3
    IN s4

\* the local variable symbol of get_yahoo_symbol after the rewrites
RewriteSymbol(ib, e) ==
    LET s0 == Replace(ib, <<" ">>, <<"-">>)
        s1 == IF e = "OSE" THEN StripTrailing(s0, "o") ELSE s0
        s2 == IF e = "HEX" THEN StripTrailing(s1, "h") ELSE s1
        s3 == IF e = "SEHK" /\ IsDigit(s2) THEN ZFill(s2, 4) ELSE s2
        s4 == IF e = "TSE" /\ Contains(s3, <<".","U","N">>)
              THEN Replace(s3, <<".","U","N">>, <<"-","U","N">>) ELSE s3
        s5 == IF e \in USExchanges THEN PreferredRewrite(s4) ELSE s4
    IN s5

\* a mutant of AlreadySuffixed: the check for an existing suffix is missing
AlreadySuffixed_Never(s) == FALSE /\ Contains(s, <<".">>)

\* "." in symbol and any(symbol.endswith(s) for s in EXCHANGE_SUFFIX.values() if s)
AlreadySuffixed(s) ==
    /\ Contains(s, <<".">>)
    /\ \E suf \in KnownSuffixes : EndsWith(s, suf)

\* the rule-based path of get_yahoo_symbol
RuleBasedSymbol(ib, e) ==
    LET s == RewriteSymbol(ib, e) IN
    IF AlreadySuffixed(s) THEN s ELSE s \o SuffixOf(e)

\* a mutant of GetYahooSymbol: the override table is not consulted
GetYahooSymbol_NoOverride(ib, e) == RuleBasedSymbol(ib, e)

\* get_yahoo_symbol(ib_symbol, exchange)
GetYahooSymbol(ib, e) ==
    IF <<ib, e>> \in DOMAIN SYMBOL_OVERRIDES
    THEN SYMBOL_OVERRIDES[<<ib, e>>]
    ELSE RuleBasedSymbol(ib, e)

----------------------------------------------------------------------------
(* Inputs of the translator *)

MaxParts == 3

\* fragments the rules of get_yahoo_symbol look at
InputTokens ==
    { <<"X">>, <<"o">>, <<"h">>, <<"7">>, <<" ">>,
      <<".","U","N">>, <<"-","P","R">>, <<" ","P","R">>,
      <<".","H","E">>, <<".","T">> }

\* the strings made of at most n fragments
RECURSIVE TokenStrings(_)
TokenStrings(n) ==
    IF n = 0 THEN {<<>>}
    ELSE LET shorter == TokenStrings(n - 1) IN
         shorter \cup {t \o s : t \in InputTokens, s \in shorter}

\* the broker symbols of the override table, and the examples of the docstring
ExampleSymbols ==
    {k[1] : k \in DOMAIN SYMBOL_OVERRIDES}
    \cup { <<"X"," ","P","R","A">>, <<"C","I","M","-","P","R","A">>,
           <<"8","7","5","0",".","T">>, <<"S","G","R",".","U","N">> }

InputSymbols == TokenStrings(MaxParts) \cup ExampleSymbols

\* every mapped exchange, and an unmapped one (a holding with no exchange)
InputExchanges == DOMAIN EXCHANGE_SUFFIX \cup {""}

----------------------------------------------------------------------------
(* The translator run: translate a symbol, then translate the result again *)

InitSym ==
    /\ ib_symbol \in InputSymbols
    /\ exchange \in InputExchanges
    /\ symbol = <<>>
    /\ yahoo_symbol = <<>>
    /\ yahoo_again = <<>>
    /\ pc = "translate"
    /\ DocIdle
    /\ BatchIdle
    /\ FetchIdle
    /\ RowIdle

Translate ==
    /\ pc = "translate"
    /\ symbol' = IF <<ib_symbol, exchange>> \in DOMAIN SYMBOL_OVERRIDES
                 THEN <<>> ELSE RewriteSymbol(ib_symbol, exchange)
    /\ yahoo_symbol' = GetYahooSymbol(ib_symbol, exchange)
    /\ pc' = "translated"
    /\ UNCHANGED <<ib_symbol, exchange, yahoo_again, docvars, batchvars, fetchvars, rowvars>>

Retranslate ==
    /\ pc = "translated"
    /\ yahoo_again' = GetYahooSymbol(yahoo_symbol, exchange)
    /\ pc' = "retranslated"
    /\ UNCHANGED <<ib_symbol, exchange, symbol, yahoo_symbol, docvars, batchvars, fetchvars, rowvars>>

NextSym == Translate \/ Retranslate

SpecSym == InitSym /\ [][NextSym]_vars

----------------------------------------------------------------------------
(* Claims about the translator *)

Overridden == <<ib_symbol, exchange>> \in DOMAIN SYMBOL_OVERRIDES

\* C1: for every (broker symbol, exchange) pair that is a key of
\* SYMBOL_OVERRIDES, get_yahoo_symbol returns exactly the table's value,
\* whatever the rule-based path would have computed for the pair.
C1_OverrideWins ==
    /\ (pc \in {"translated", "retranslated"} /\ Overridden)
         => yahoo_symbol = SYMBOL_OVERRIDES[<<ib_symbol, exchange>>]
    /\ (pc = "retranslated" /\ <<yahoo_symbol, exchange>> \in DOMAIN SYMBOL_OVERRIDES)
         => yahoo_again = SYMBOL_OVERRIDES[<<yahoo_symbol, exchange>>]

\* C1 witness: an overridden pair has been translated, and the rules would
\* have given another symbol (KEK on HEX: KESKOB.HE, not KEK.HE).
C1_Witness ==
    /\ pc = "translated"
    /\ Overridden
    /\ RuleBasedSymbol(ib_symbol, exchange) # yahoo_symbol

\* the symbol's last characters are a non-empty value of the exchange table
C2_EndsInKnownSuffix(s) ==
    \E e \in DOMAIN EXCHANGE_SUFFIX :
        LET suf == EXCHANGE_SUFFIX[e]
            k == Len(suf)
        IN /\ k > 0
           /\ k <= Len(s)
           /\ \A i \in 1..k : s[Len(s) - k + i] = suf[i]

\* C2: translation is idempotent with respect to suffixing: a symbol that
\* after the rewrites already ends in a known non-empty suffix is returned
\* with no suffix appended, a suffix is appended only to a symbol that ends
\* in none, and translating the result again returns the result.
C2_Idempotent ==
    /\ pc = "retranslated" => yahoo_again = yahoo_symbol
    /\ (pc \in {"translated", "retranslated"} /\ ~Overridden) =>
          /\ C2_EndsInKnownSuffix(symbol) => yahoo_symbol = symbol
          /\ yahoo_symbol # symbol =>
                /\ ~C2_EndsInKnownSuffix(symbol)
                /\ yahoo_symbol = symbol \o SuffixOf(exchange)
                /\ C2_EndsInKnownSuffix(yahoo_symbol)

\* C2 witness: a rule-translated symbol that already ended in a known suffix,
\* on an exchange with a suffix of its own, has been translated twice.
C2_Witness ==
    /\ pc = "retranslated"
    /\ ~Overridden
    /\ C2_EndsInKnownSuffix(symbol)
    /\ SuffixOf(exchange) # <<>>
    /\ ~C2_EndsInKnownSuffix(ib_symbol)

\* the sequence of C3, position by position
C3_Expected(ib, e) ==
    LET hy == [i \in 1..Len(ib) |-> IF ib[i] = " " THEN "-" ELSE ib[i]]
        n == Len(ib)
        Strip(letter) ==
            IF n > 1 /\ hy[n] = letter THEN [i \in 1..(n - 1) |-> hy[i]] ELSE hy
        rw == CASE e = "OSE" -> Strip("o")
                [] e = "HEX" -> Strip("h")
                [] e = "SEHK" ->
                     IF n > 0 /\ n < 4 /\ \A i \in 1..n : hy[i] \in Digits
                     THEN [i \in 1..4 |-> IF i <= 4 - n THEN "0" ELSE hy[i - (4 - n)]]
                     ELSE hy
                [] e = "TSE" ->
                     [i \in 1..n |->
                        IF i + 2 <= n /\ hy[i] = "." /\ hy[i + 1] = "U" /\ hy[i + 2] = "N"
                        THEN "-" ELSE hy[i]]
                [] e \in {"NYSE", "NASDAQ", "AMEX", "ARCA"} ->
                     IF /\ n >= 5
                        /\ hy[n - 3] = "-" /\ hy[n - 2] = "P" /\ hy[n - 1] = "R"
                        /\ hy[n] \in Upper
                     THEN [i \in 1..(n - 1) |-> IF i <= n - 2 THEN hy[i] ELSE hy[n]]
                     ELSE hy
                [] OTHER -> hy
        suffix == IF e \in DOMAIN EXCHANGE_SUFFIX THEN EXCHANGE_SUFFIX[e] ELSE <<>>
    IN IF C2_EndsInKnownSuffix(rw) THEN rw ELSE rw \o suffix

----------------------------------------------------------------------------
(* scripts/extract_lynx_pdfs.py: dates and amounts *)

Lower == {"a","b","c","d","e","f","g","h","i","j","k","l","m",
          "n","o","p","q","r","s","t","u","v","w","x","y","z"}

Letters == Upper \cup Lower

\* \d{n} at index at
DigitsAt(s, at, n) ==
    /\ at + n - 1 <= Len(s)
    /\ \A i \in at..(at + n - 1) : s[i] \in Digits

\* \d{4}-\d{2}-\d{2} at index at
IsoDateAt(s, at) ==
    /\ DigitsAt(s, at, 4) /\ MatchAt(s, at + 4, <<"-">>)
    /\ DigitsAt(s, at + 5, 2) /\ MatchAt(s, at + 7, <<"-">>)
    /\ DigitsAt(s, at + 8, 2)

\* \d{2}<sep>\d{2}<sep>\d{4} at index at
DayFirstDateAt(s, at, sep) ==
    /\ DigitsAt(s, at, 2) /\ MatchAt(s, at + 2, <<sep>>)
    /\ DigitsAt(s, at + 3, 2) /\ MatchAt(s, at + 5, <<sep>>)
    /\ DigitsAt(s, at + 6, 4)

\* date_pattern of parse_dividend_row matches at index at: the alternation
\* ISO | slash | dot (every alternative is 10 characters long)
DatePatternAt(s, at) ==
    \/ IsoDateAt(s, at)
    \/ DayFirstDateAt(s, at, "/")
    \/ DayFirstDateAt(s, at, ".")

\* the least element of a set of positive numbers, 0 for the empty set
Min0(S) == IF S = {} THEN 0 ELSE CHOOSE x \in S : \A y \in S : x <= y

\* the ten characters at index at, <<>> for index 0
DateAt(cell, at) == IF at = 0 THEN <<>> ELSE SubSeq(cell, at, at + 9)

\* a mutant of DateSearch: an ISO date is preferred wherever it stands
DateSearch_IsoFirst(cell) ==
    DateAt(cell, Min0(IF \E at \in 1..Len(cell) : IsoDateAt(cell, at)
                      THEN {at \in 1..Len(cell) : IsoDateAt(cell, at)}
                      ELSE {at \in 1..Len(cell) : DatePatternAt(cell, at)}))

\* date_pattern.search(cell).group(): the match at the leftmost index where
\* an alternative matches, <<>> when there is none (the code's None)
DateSearch(cell) ==
    DateAt(cell, Min0({at \in 1..Len(cell) : DatePatternAt(cell, at)}))

\* amount_pattern.fullmatch(s), amount_pattern = -?[\d,]+\.?\d* , for an s
\* without commas: an optional minus, digits, an optional point, digits
AmountFullMatch(s) ==
    LET body == IF s # <<>> /\ s[1] = "-" THEN Tail(s) ELSE s
        dots == {i \in 1..Len(body) : body[i] = "."}
    IN /\ body # <<>>
       /\ body[1] \in Digits
       /\ Cardinality(dots) <= 1
       /\ \A i \in 1..Len(body) : body[i] \in Digits \cup {"."}

\* the number of fractional decimal digits an amount keeps in the model: an
\* amount is an integer count of units of 10^-FracDigits
FracDigits == 2

DigitValue(c) ==
    CASE c = "0" -> 0 [] c = "1" -> 1 [] c = "2" -> 2 [] c = "3" -> 3 [] c = "4" -> 4
      [] c = "5" -> 5 [] c = "6" -> 6 [] c = "7" -> 7 [] c = "8" -> 8 [] c = "9" -> 9

\* the value of a string of digits, 0 for the empty string
RECURSIVE DigitsValue(_)
DigitsValue(ds) ==
    IF ds = <<>> THEN 0
    ELSE 10 * DigitsValue(SubSeq(ds, 1, Len(ds) - 1)) + DigitValue(ds[Len(ds)])

\* float(s) raises ValueError: s, of the form -?\d*\.?\d* , has no digit
FloatRaises(s) == \A i \in 1..Len(s) : s[i] \notin Digits

\* whole.frac in units of 10^-FracDigits
FloatMagnitude(whole, frac) ==
    DigitsValue(whole) * (10 ^ FracDigits)
      + DigitsValue([i \in 1..FracDigits |-> IF i <= Len(frac) THEN frac[i] ELSE "0"])

\* the parts of an unsigned number before and after the point at index dot
FloatSplit(body, dot) ==
    FloatMagnitude(SubSeq(body, 1, dot - 1), SubSeq(body, dot + 1, Len(body)))

\* the index of the point, one past the end when there is none
PointIndex(body) ==
    LET dots == {i \in 1..Len(body) : body[i] = "."} IN
    IF dots = {} THEN Len(body) + 1 ELSE CHOOSE i \in dots : TRUE

\* float(s) for s of the form -?\d*\.?\d* with at least one digit and at most
\* FracDigits digits after the point, in units of 10^-FracDigits
Float(s) ==
    IF s # <<>> /\ s[1] = "-"
    THEN 0 - FloatSplit(Tail(s), PointIndex(Tail(s)))
    ELSE FloatSplit(s, PointIndex(s))

\* abs(x)
Abs(x) == IF x < 0 THEN 0 - x ELSE x

\* str.strip(): leading and trailing blanks removed
RECURSIVE StripBlanks(_)
StripBlanks(s) ==
    IF s = <<>> THEN s
    ELSE IF Head(s) = " " THEN StripBlanks(Tail(s))
    ELSE IF s[Len(s)] = " " THEN StripBlanks(SubSeq(s, 1, Len(s) - 1))
    ELSE s

\* str.isalpha(): non-empty and every character a letter
IsAlpha(s) == s # <<>> /\ \A i \in 1..Len(s) : s[i] \in Letters

\* a mutant of NormalizeDate: the date is returned as it is
NormalizeDate_Unchanged(date_str) == SubSeq(date_str, 1, Len(date_str))

\* normalize_date(date_str): re.match at the start of the string
NormalizeDate(date_str) ==
    IF DayFirstDateAt(date_str, 1, "/") \/ DayFirstDateAt(date_str, 1, ".")
    THEN SubSeq(date_str, 7, 10) \o <<"-">> \o SubSeq(date_str, 4, 5)
           \o <<"-">> \o SubSeq(date_str, 1, 2)
    ELSE date_str

----------------------------------------------------------------------------
(* parse_dividend_row *)

\* cleaned = [str(cell).strip() if cell else "" for cell in row]; a cell that
\* is None is written <<>>, which cleans to "" like the empty string
Cleaned(row) == [i \in 1..Len(row) |-> StripBlanks(row[i])]

\* the element at index i, <<>> for index 0
ElementAt(seq, i) == IF i = 0 THEN <<>> ELSE seq[i]

\* date_pattern.search(cell)
HasDate(cell) == DateSearch(cell) # <<>>

\* amount_pattern.fullmatch(cell.replace(",", ""))
IsAmount(cell) == AmountFullMatch(Replace(cell, <<",">>, <<>>))

\* cell and len(cell) <= 10 and cell.isalpha()
IsSymbol(cell) == cell # <<>> /\ Len(cell) <= 10 /\ IsAlpha(cell)

\* the loop over the cells: the date of the first cell that holds one
RowDateStr(cleaned) ==
    DateSearch(ElementAt(cleaned, Min0({i \in 1..Len(cleaned) : HasDate(cleaned[i])})))

\* the loop over the cells: the first cell that, commas removed, is an amount
RowAmountStr(cleaned) ==
    Replace(ElementAt(cleaned, Min0({i \in 1..Len(cleaned) : IsAmount(cleaned[i])})),
            <<",">>, <<>>)

\* the first cell that looks like a symbol
RowSymbol(cleaned) ==
    ElementAt(cleaned, Min0({i \in 1..Len(cleaned) : IsSymbol(cleaned[i])}))

UNKNOWN == <<"U","N","K","N","O","W","N">>

\* a mutant of KeepAmount: a zero amount is kept
KeepAmount_AlsoZero(amount) == Abs(amount) >= 0

\* if abs(amount) > 0
KeepAmount(amount) == Abs(amount) > 0

\* amount = float(amount_str); if abs(amount) > 0: return {...}
RowRecord(sym, date_str, amount) ==
    IF KeepAmount(amount)
    THEN << [ symbol |-> IF sym # <<>> THEN sym ELSE UNKNOWN,
              date |-> NormalizeDate(date_str),
              amount |-> Abs(amount),
              raw_amount |-> amount,
              source |-> "lynx_pdf" ] >>
    ELSE <<>>

\* if date_str and amount_str: ...
RowResult(sym, date_str, amount_str) ==
    IF date_str # <<>> /\ amount_str # <<>>
    THEN RowRecord(sym, date_str, Float(amount_str))
    ELSE <<>>

\* the body of parse_dividend_row on the cleaned cells
ParseCleaned(cleaned) ==
    RowResult(RowSymbol(cleaned), RowDateStr(cleaned), RowAmountStr(cleaned))

\* parse_dividend_row(row): the record in a sequence, <<>> for None
ParseDividendRow(row) == ParseCleaned(Cleaned(row))

----------------------------------------------------------------------------
(* parse_dividend_text: the text of a page is its sequence of words, the      *)
(* maximal runs of non-blank characters, with NL standing for a line break.   *)
(* In the pattern \s+ is a gap between two words, line breaks included, and   *)
(* . stays within a line.                                                     *)

NL == <<"\n">>

LowerOf(c) ==
    CASE c = "A" -> "a" [] c = "B" -> "b" [] c = "C" -> "c" [] c = "D" -> "d"
      [] c = "E" -> "e" [] c = "F" -> "f" [] c = "G" -> "g" [] c = "H" -> "h"
      [] c = "I" -> "i" [] c = "J" -> "j" [] c = "K" -> "k" [] c = "L" -> "l"
      [] c = "M" -> "m" [] c = "N" -> "n" [] c = "O" -> "o" [] c = "P" -> "p"
      [] c = "Q" -> "q" [] c = "R" -> "r" [] c = "S" -> "s" [] c = "T" -> "t"
      [] c = "U" -> "u" [] c = "V" -> "v" [] c = "W" -> "w" [] c = "X" -> "x"
      [] c = "Y" -> "y" [] c = "Z" -> "z" [] OTHER -> c

\* str.lower()
LowerCase(s) == [i \in 1..Len(s) |-> LowerOf(s[i])]

\* the last n characters of a word, ten at most
LastChars(word, n) ==
    SubSeq(word, Len(word) - (IF n > 10 THEN 10 ELSE n) + 1, Len(word))

\* ([A-Z]{1,10})\s+ with IGNORECASE: the letters that end the word, the last
\* ten of them at most
SymbolGroup(word) ==
    LastChars(word, Cardinality({n \in 1..Len(word) :
                  \A i \in (Len(word) - n + 1)..Len(word) : word[i] \in Letters}))

\* the index of the first word after index i, 0 when the text ends first
NextWord(text, i) == Min0({j \in (i + 1)..Len(text) : text[j] # NL})

\* the index of the last word of the line that word i stands on
LineEnd(text, i) ==
    Min0({j \in (i + 1)..(Len(text) + 1) : j = Len(text) + 1 \/ text[j] = NL}) - 1

\* the indices after the occurrences of a keyword in a word
KeywordEnds(w, keyword) ==
    {at + Len(keyword) : at \in {a \in 1..Len(w) : MatchAt(w, a, keyword)}}

\* (?:dividend|payment) with IGNORECASE in a word: the index after the
\* leftmost occurrence, 0 when there is none
KeywordEnd(word) ==
    Min0(KeywordEnds(LowerCase(word), <<"d","i","v","i","d","e","n","d">>)
         \cup KeywordEnds(LowerCase(word), <<"p","a","y","m","e","n","t">>))

\* [\d,]+\.?\d* matches the whole of s
TextAmountMatch(s) ==
    \E k \in 1..Len(s) :
        /\ \A i \in 1..k : s[i] \in Digits \cup {","}
        /\ \/ k = Len(s)
           \/ /\ s[k + 1] = "."
              /\ \A i \in (k + 2)..Len(s) : s[i] \in Digits

\* the characters of a word from index st on, <<>> for index 0
Suffix(word, st) == IF st = 0 THEN <<>> ELSE SubSeq(word, st, Len(word))

\* ([\d,]+\.?\d*)\s+ after a lazy .*? : the amount that ends the word and
\* starts at the least index from `from` on, <<>> when there is none
AmountGroup(word, from) ==
    Suffix(word, Min0({st \in from..Len(word) :
                          TextAmountMatch(SubSeq(word, st, Len(word)))}))

\* ([A-Z]{3}) with IGNORECASE starts the word
CurrencyAt(text, u) ==
    /\ u # 0
    /\ Len(text[u]) >= 3
    /\ \A i \in 1..3 : text[u][i] \in Letters

\* if amount > 0
KeepTextAmount(amount) == amount > 0

\* The pattern of parse_dividend_text, matched from the first word of the
\* text on. A match is [matched, records, rest]: whether there is one, the
\* records it yields and the text after it.
NoMatch == [matched |-> FALSE, records |-> <<>>, rest |-> <<>>]

\* if amount > 0: records.append({...})
TextRecord(text, b, amount, u) ==
    IF KeepTextAmount(amount)
    THEN << [ symbol |-> SymbolGroup(text[1]),
              date |-> text[b],
              amount |-> amount,
              currency |-> SubSeq(text[u], 1, 3),
              source |-> "lynx_pdf_text" ] >>
    ELSE <<>>

\* what is left of the word the three currency letters start
Leftover(left) == IF left = <<>> THEN <<>> ELSE <<left>>

\* the match is complete: str is group 3 without commas, u the currency word
MatchFound(text, b, str, u) ==
    [ matched |-> TRUE,
      records |-> IF FloatRaises(str) THEN <<>> ELSE TextRecord(text, b, Float(str), u),
      rest |-> Leftover(SubSeq(text[u], 4, Len(text[u]))) \o SubSeq(text, u + 1, Len(text)) ]

\* group 3 in word t, after the keyword when t is the keyword's word k
AmountIn(text, k, t) ==
    AmountGroup(text[t], IF t = k THEN KeywordEnd(text[k]) ELSE 1)

\* t: the first word that ends in an amount and is followed by a currency
MatchAmount(text, b, k, t) ==
    IF t = 0 THEN NoMatch
    ELSE MatchFound(text, b, Replace(AmountIn(text, k, t), <<",">>, <<>>),
                    NextWord(text, t))

\* k: the first word of the line that holds a keyword; e: the line's end
MatchKeyword(text, b, e, k) ==
    IF k = 0 THEN NoMatch
    ELSE MatchAmount(text, b, k,
                     Min0({t \in k..e : /\ AmountIn(text, k, t) # <<>>
                                         /\ CurrencyAt(text, NextWord(text, t))}))

\* c: the first word after the date; .*? stays on its line
MatchLine(text, b, c) ==
    IF c = 0 THEN NoMatch
    ELSE MatchKeyword(text, b, LineEnd(text, c),
                      Min0({k \in c..LineEnd(text, c) : KeywordEnd(text[k]) # 0}))

\* b: the word after the symbol, which must be an ISO date
MatchDate(text, b) ==
    IF b = 0 THEN NoMatch
    ELSE IF ~(Len(text[b]) = 10 /\ IsoDateAt(text[b], 1)) THEN NoMatch
    ELSE MatchLine(text, b, NextWord(text, b))

TextMatch(text) ==
    IF text[1] = NL \/ SymbolGroup(text[1]) = <<>> THEN NoMatch
    ELSE MatchDate(text, NextWord(text, 1))

RECURSIVE ParseDividendText(_)

\* after the attempt m at the first word: go on after the match, or at the
\* next word
ContinueText(text, m) ==
    IF m.matched THEN m.records \o ParseDividendText(m.rest)
    ELSE ParseDividendText(Tail(text))

\* parse_dividend_text(text): pattern.finditer from left to right
ParseDividendText(text) ==
    IF text = <<>> THEN <<>> ELSE ContinueText(text, TextMatch(text))

----------------------------------------------------------------------------
(* extract_dividends_pdf: a PDF is the sequence of its pages; a page holds   *)
(* the rows of its tables, in the order the loops over page.extract_tables() *)
(* visit them, and the words of page.extract_text().                         *)

\* the concatenation of the sequences of a sequence: what a loop leaves in a
\* list when each iteration extends the list
RECURSIVE Concat(_)
Concat(seqs) ==
    IF seqs = <<>> THEN <<>> ELSE Head(seqs) \o Concat(Tail(seqs))

\* if row and len(row) >= 5: record = parse_dividend_row(row)
TableRowRecords(row) == IF Len(row) >= 5 THEN ParseDividendRow(row) ELSE <<>>

\* the records one page adds: its table rows, then its text matches
PageRecords(page) ==
    Concat([i \in 1..Len(page.rows) |-> TableRowRecords(page.rows[i])])
      \o ParseDividendText(page.text)

\* records when the loop over the pages has ended
RawRecords(pages) == Concat([i \in 1..Len(pages) |-> PageRecords(pages[i])])

\* key = (r.get("symbol", ""), r.get("date", ""), r.get("amount", ""))
DedupKey(r) == <<r.symbol, r.date, r.amount>>

\* the loop over records with the set seen
RECURSIVE DedupLoop(_, _, _)
DedupLoop(recs, seen, kept) ==
    IF recs = <<>> THEN kept
    ELSE LET key == DedupKey(Head(recs)) IN
         IF key \notin seen
         THEN DedupLoop(Tail(recs), seen \cup {key}, Append(kept, Head(recs)))
         ELSE DedupLoop(Tail(recs), seen, kept)

\* a mutant of Deduplicate: nothing is dropped
Deduplicate_Nothing(recs) == recs

\* the Deduplicate block of extract_dividends_pdf
Deduplicate(recs) == DedupLoop(recs, {}, <<>>)

\* extract_dividends_pdf(pdf_path) when no call into the PDF library raises
ExtractDividendsPdf(pages) == Deduplicate(RawRecords(pages))

----------------------------------------------------------------------------
(* Inputs of extract_dividends_pdf *)

MaxPages == 2
MaxItems == 3

\* table rows: the row of the specification's end-to-end example, the same
\* dividend booked negative, a zero amount with a slash date, a row of four
\* cells, and a row with an empty first cell, blanks and a dot date
SampleRows ==
    { << <<"A","A","P","L">>, <<"2","0","2","4","-","0","1","-","1","5">>, <<"D","i","v","i","d","e","n","d">>, <<"1",".","5","0">>, <<"U","S","D">> >>,
      << <<"A","A","P","L">>, <<"2","0","2","4","-","0","1","-","1","5">>, <<"D","i","v","i","d","e","n","d">>, <<"-","1",".","5","0">>, <<"U","S","D">> >>,
      << <<"K","O">>, <<"1","6","/","0","1","/","2","0","2","4">>, <<"D","i","v","i","d","e","n","d">>, <<"0",".","0","0">>, <<"U","S","D">> >>,
      << <<"K","O">>, <<"2","0","2","4","-","0","1","-","1","6">>, <<"T","a","x">>, <<"1",",","2","3","4",".","5","6">> >>,
      << <<>>, <<" ","1","6",".","0","1",".","2","0","2","4"," ">>, <<"K","O">>, <<"2",".","0","0">>, <<"1","2","a">> >> }

\* text lines, as words
SampleLines ==
    { << <<"A","A","P","L">>, <<"2","0","2","4","-","0","1","-","1","5">>, <<"C","a","s","h">>, <<"D","i","v","i","d","e","n","d">>, <<"1",".","5","0">>, <<"U","S","D">> >>,
      << <<"K","O">>, <<"2","0","2","4","-","0","1","-","1","6">>, <<"P","a","y","m","e","n","t">>, <<"2",".","0","0">>, <<"U","S","D">> >>,
      << <<"K","O">>, <<"2","0","2","4","-","0","1","-","1","6">>, <<"D","i","v","i","d","e","n","d">>, <<"0",".","0","0">>, <<"U","S","D">> >> }

\* the sequences of at most n elements of S
RECURSIVE SeqsUpTo(_, _)
SeqsUpTo(S, n) ==
    IF n = 0 THEN {<<>>}
    ELSE LET shorter == SeqsUpTo(S, n - 1) IN
         shorter \cup {<<x>> \o s : x \in S, s \in shorter}

\* the words of a text of several lines
RECURSIVE JoinLines(_)
JoinLines(lines) ==
    IF lines = <<>> THEN <<>>
    ELSE IF Len(lines) = 1 THEN Head(lines)
    ELSE Head(lines) \o <<NL>> \o JoinLines(Tail(lines))

\* the pages with at most n rows and lines together
PagesUpTo(n) ==
    UNION { { [rows |-> r, text |-> JoinLines(l)] :
                l \in SeqsUpTo(SampleLines, n - Len(r)) } :
            r \in SeqsUpTo(SampleRows, n) }

\* the number of rows and lines of a page
PageItems(page) ==
    Len(page.rows) + Cardinality({i \in 1..Len(page.text) : page.text[i] = NL})
      + (IF page.text = <<>> THEN 0 ELSE 1)

\* the PDFs of at most p pages and n rows and lines together
RECURSIVE PdfsUpTo(_, _)
PdfsUpTo(p, n) ==
    IF p = 0 THEN {<<>>}
    ELSE {<<>>} \cup UNION { { <<page>> \o rest : rest \in PdfsUpTo(p - 1, n - PageItems(page)) } :
                             page \in PagesUpTo(n) }

----------------------------------------------------------------------------
(* One call of extract_dividends_pdf *)

InitDoc ==
    /\ pdf \in PdfsUpTo(MaxPages, MaxItems)
    /\ records = <<>>
    /\ unique = <<>>
    /\ pc = "extract"
    /\ SymIdle
    /\ BatchIdle
    /\ FetchIdle
    /\ RowIdle

ExtractDividends ==
    /\ pc = "extract"
    /\ records' = RawRecords(pdf)
    /\ unique' = Deduplicate(records')
    /\ pc' = "extracted"
    /\ UNCHANGED <<pdf, symvars, batchvars, fetchvars, rowvars>>

NextDoc == ExtractDividends

SpecDoc == InitDoc /\ [][NextDoc]_vars

----------------------------------------------------------------------------
(* Claims about extract_dividends_pdf *)

C6_Triple(r) == <<r.symbol, r.date, r.amount>>

\* the records of the table rows of a page, last row last
RECURSIVE C6_TableRecords(_)
C6_TableRecords(rows) ==
    IF rows = <<>> THEN <<>>
    ELSE LET last == rows[Len(rows)] IN
         C6_TableRecords(SubSeq(rows, 1, Len(rows) - 1))
           \o (IF Len(last) >= 5 THEN ParseDividendRow(last) ELSE <<>>)

\* per page: table rows first, then text matches; pages in order
RECURSIVE C6_Concatenated(_)
C6_Concatenated(pages) ==
    IF pages = <<>> THEN <<>>
    ELSE LET last == pages[Len(pages)] IN
         C6_Concatenated(SubSeq(pages, 1, Len(pages) - 1))
           \o C6_TableRecords(last.rows) \o ParseDividendText(last.text)

\* the indices of the records no earlier record shares its triple with
C6_FirstOfTriple(recs) ==
    {i \in 1..Len(recs) : \A j \in 1..(i - 1) : C6_Triple(recs[j]) # C6_Triple(recs[i])}

\* the n-th least element of a set of numbers
C6_Nth(S, n) == CHOOSE x \in S : Cardinality({y \in S : y < x}) = n - 1

\* C6: within one dividend document the records of the table path and of the
\* text path of all pages are concatenated (per page: table rows first, then
\* text matches) and then deduplicated by (symbol, date, amount): of the
\* records with one triple the first encountered is kept, whichever path or
\* page it came from, and the survivors keep their relative order.
C6_FirstKeptInOrder ==
    pc = "extracted" =>
        /\ records = C6_Concatenated(pdf)
        /\ Len(unique) = Cardinality(C6_FirstOfTriple(records))
        /\ \A n \in 1..Len(unique) :
              unique[n] = records[C6_Nth(C6_FirstOfTriple(records), n)]

\* C6 witness: a table record and a later text record with the same triple
\* were collected, and the text record was dropped.
C6_Witness ==
    /\ pc = "extracted"
    /\ \E i, j \in 1..Len(records) :
          /\ i < j
          /\ records[i].source = "lynx_pdf"
          /\ records[j].source = "lynx_pdf_text"
          /\ C6_Triple(records[i]) = C6_Triple(records[j])
          /\ \A n \in 1..Len(unique) : unique[n] # records[j]
          /\ \E n \in 1..Len(unique) : unique[n] = records[i]
    /\ Len(unique) >= 2

\* the amount of a record is positive, and on the table path it is the
\* absolute value of a non-zero raw_amount
C7_AmountOk(r) ==
    /\ r.amount > 0
    /\ r.source = "lynx_pdf" =>
          /\ r.raw_amount # 0
          /\ r.amount = IF r.raw_amount < 0 THEN 0 - r.raw_amount ELSE r.raw_amount

\* C7: zero-amount rows never appear in dividend output: every record of
\* parse_dividend_row, parse_dividend_text and extract_dividends_pdf has an
\* amount greater than 0, and a table-path record has amount = |raw_amount|
\* with raw_amount non-zero.
C7_NoZeroAmount ==
    pc = "extracted" =>
        /\ \A i \in 1..Len(records) : C7_AmountOk(records[i])
        /\ \A i \in 1..Len(unique) : C7_AmountOk(unique[i])

\* a table row of at least five cells with a date and an amount of zero
C7_ZeroRow(row) ==
    /\ Len(row) >= 5
    /\ RowDateStr(Cleaned(row)) # <<>>
    /\ RowAmountStr(Cleaned(row)) # <<>>
    /\ Float(RowAmountStr(Cleaned(row))) = 0

\* C7 witness: a document with a zero-amount table row and a negative
\* amount has been extracted, and the negative amount is in the output.
C7_Witness ==
    /\ pc = "extracted"
    /\ \E p \in 1..Len(pdf) : \E i \in 1..Len(pdf[p].rows) : C7_ZeroRow(pdf[p].rows[i])
    /\ \E n \in 1..Len(unique) : unique[n].source = "lynx_pdf" /\ unique[n].raw_amount < 0
    /\ \E n \in 1..Len(unique) : unique[n].source = "lynx_pdf_text"

----------------------------------------------------------------------------
(* main: the batch driver *)

\* a mutant of Classify: the 9a test comes before the dividend test
Classify_TradeFirst(name) ==
    LET n == LowerCase(name) IN
    IF Contains(n, <<"9","a">>) \/ Contains(n, <<"9","a","_">>) THEN "9a"
    ELSE IF Contains(n, <<"d","i","v","i","d","e","n","d">>) THEN "dividend"
    ELSE IF Contains(n, <<"1","6","b">>) THEN "16b"
    ELSE IF Contains(n, <<"k","u","s","t","a","n","n","u","s">>) \/ Contains(n, <<"c","o","s","t">>) THEN "cost"
    ELSE "unknown"

\* the keyword tests of the if / elif chain on name = pdf_path.name.lower()
Classify(name) ==
    LET n == LowerCase(name) IN
    IF Contains(n, <<"d","i","v","i","d","e","n","d">>) THEN "dividend"
    ELSE IF Contains(n, <<"9","a">>) \/ Contains(n, <<"9","a","_">>) THEN "9a"
    ELSE IF Contains(n, <<"1","6","b">>) THEN "16b"
    ELSE IF Contains(n, <<"k","u","s","t","a","n","n","u","s">>) \/ Contains(n, <<"c","o","s","t">>) THEN "cost"
    ELSE "unknown"

\* 1024 * 1024, the bytes of a megabyte
MiB == 1024 * 1024

\* the limits of the 9A and of the 16B branch, in megabytes
LargeTradeMb == 50
LargeSummaryMb == 30

\* a mutant of TooLarge: a file of exactly the limit is skipped too
TooLarge_AtLimit(st_size, limit) == st_size >= limit * MiB

\* size_mb = st_size / (1024 * 1024); size_mb > limit (the division is exact
\* in floating point for every file size, so this is st_size > limit * 2^20)
TooLarge(st_size, limit) == st_size > limit * MiB

\* pdf.pages[:5] of extract_16b_summary
SummaryPages == 5
FirstPages(pages) ==
    IF Len(pages) > SummaryPages THEN SubSeq(pages, 1, SummaryPages) ELSE pages

\* What the PDF library does during one extraction: it reads `done` pages
\* and then either the loop ends (all pages read) or a call into it raises
\* (pdfplumber.open, pdf.pages, extract_tables or extract_text).
Outcomes(pages) ==
    {[raises |-> FALSE, done |-> Len(pages)]}
    \cup {[raises |-> TRUE, done |-> d] : d \in 0..(IF pages = <<>> THEN 0 ELSE Len(pages) - 1)}

\* records of extract_9a_trades, extract_16b_summary and extract_costs when
\* `done` pages were read: a page is written as the records its rows (or
\* lines) yield, in order
Collected(pages, done) == Concat(SubSeq(pages, 1, done))

\* records of extract_dividends_pdf when `done` pages were read
CollectedDividends(pages, done) == RawRecords(SubSeq(pages, 1, done))

\* the character codes, in increasing order, of the characters of file names
AsciiOrder ==
    <<".","0","1","2","3","4","5","6","7","8","9","A","B","C","D","E","F","G","H","I","J","K","L","M","N","O","P","Q","R","S","T","U","V","W","X","Y","Z","_","a","b","c","d","e","f","g","h","i","j","k","l","m","n","o","p","q","r","s","t","u","v","w","x","y","z">>

CharRank(c) == CHOOSE i \in 1..Len(AsciiOrder) : AsciiOrder[i] = c

\* a < b for strings
StrLess(a, b) ==
    \E k \in 1..(Len(b)) :
        /\ \A i \in 1..(k - 1) : i <= Len(a) /\ a[i] = b[i]
        /\ \/ k = Len(a) + 1
           \/ k <= Len(a) /\ CharRank(a[k]) < CharRank(b[k])

\* sorted(...) of a set of names
RECURSIVE Sorted(_)
Sorted(names) ==
    IF names = {} THEN <<>>
    ELSE LET first == CHOOSE x \in names : \A y \in names \ {x} : StrLess(x, y)
         IN <<first>> \o Sorted(names \ {first})

\* input_dir.glob("*.pdf")
Glob(dir) == {name \in dir : EndsWith(name, <<".","p","d","f">>)}

\* a mutant of SavedFiles: save_json is called for the empty categories too
SavedFiles_Always(dividends, trades, summaries, costs) ==
    [f \in {"dividends.json", "9a_trades.json", "16b_summaries.json", "costs.json"} |->
        CASE f = "dividends.json" -> dividends
          [] f = "9a_trades.json" -> trades
          [] f = "16b_summaries.json" -> summaries
          [] f = "costs.json" -> costs]

\* the Save results block: the files save_json writes, with their data
SavedFiles(dividends, trades, summaries, costs) ==
    LET files == (IF dividends # <<>> THEN {"dividends.json"} ELSE {})
                 \cup (IF trades # <<>> THEN {"9a_trades.json"} ELSE {})
                 \cup (IF summaries # <<>> THEN {"16b_summaries.json"} ELSE {})
                 \cup (IF costs # <<>> THEN {"costs.json"} ELSE {})
    IN [f \in files |->
          CASE f = "dividends.json" -> dividends
            [] f = "9a_trades.json" -> trades
            [] f = "16b_summaries.json" -> summaries
            [] f = "costs.json" -> costs]

----------------------------------------------------------------------------
(* Inputs of the batch driver *)

MaxFiles == 2

SampleNames ==
    { <<"d","i","v","i","d","e","n","d","s","_","U","1",".","p","d","f">>, <<"D","i","v","i","d","e","n","d","_","9","A",".","p","d","f">>, <<"9","A","_","2","0","2","3",".","p","d","f">>, <<"9","a","_","1","6","b",".","p","d","f">>,
      <<"1","6","B","_","c","o","s","t",".","p","d","f">>, <<"K","u","s","t","a","n","n","u","s",".","p","d","f">>, <<"c","o","s","t","s",".","p","d","f">>, <<"n","o","t","e","s",".","p","d","f">>,
      <<"d","i","v","i","d","e","n","d",".","t","x","t">> }

Directories == {dir \in SUBSET SampleNames : Cardinality(dir) <= MaxFiles}

\* st_size: at and just over each limit, and 51 MB
SampleSizes == {30 * MiB, 30 * MiB + 1, 50 * MiB, 50 * MiB + 1, 51 * MiB}

RowExample == << <<"A","A","P","L">>, <<"2","0","2","4","-","0","1","-","1","5">>, <<"D","i","v","i","d","e","n","d">>, <<"1",".","5","0">>, <<"U","S","D">> >>
RowNegative == << <<"A","A","P","L">>, <<"2","0","2","4","-","0","1","-","1","5">>, <<"D","i","v","i","d","e","n","d">>, <<"-","1",".","5","0">>, <<"U","S","D">> >>
RowZero == << <<"K","O">>, <<"1","6","/","0","1","/","2","0","2","4">>, <<"D","i","v","i","d","e","n","d">>, <<"0",".","0","0">>, <<"U","S","D">> >>
LineExample == << <<"A","A","P","L">>, <<"2","0","2","4","-","0","1","-","1","5">>, <<"C","a","s","h">>, <<"D","i","v","i","d","e","n","d">>, <<"1",".","5","0">>, <<"U","S","D">> >>
LinePayment == << <<"K","O">>, <<"2","0","2","4","-","0","1","-","1","6">>, <<"P","a","y","m","e","n","t">>, <<"2",".","0","0">>, <<"U","S","D">> >>

\* dividend PDFs: no page; the one row of the end-to-end example; two pages
\* with a zero row, a repeated dividend and text
SampleDividendPdfs ==
    { <<>>,
      << [rows |-> <<RowExample>>, text |-> <<>>] >>,
      << [rows |-> <<RowExample, RowZero>>, text |-> LineExample],
         [rows |-> <<RowNegative>>, text |-> LinePayment] >> }

TradeA ==
    [ symbol |-> <<"A","A","P","L">>, date |-> <<"2","0","2","4","-","0","1","-","1","5">>,
      amounts |-> <<202400, -100, -1500, 1000, 15000>>, source |-> "9a_pdf" ]
TradeB ==
    [ symbol |-> <<"K","O">>, date |-> <<"2","0","2","4","-","0","1","-","1","6">>,
      amounts |-> <<202400, -100, -1600, 6000>>, source |-> "9a_pdf" ]

Sample9aPdfs == { <<>>, << <<TradeA>> >>, << <<TradeA, TradeB>>, <<TradeA>> >> }

SummaryA == [ line |-> <<"T","o","t","a","l"," ","1",",","2","3","4",".","5","6">>, amounts |-> << <<"1",",","2","3","4",".","5","6">> >>, source |-> "16b_pdf" ]
SummaryB == [ line |-> <<"N","e","t"," ","1","0">>, amounts |-> << <<"1","0">> >>, source |-> "16b_pdf" ]

Sample16bPdfs == { <<>>, << <<SummaryA>> >>, << <<SummaryA>>, <<SummaryB>> >> }

CostA == [ description |-> <<"C","o","m","m","i","s","s","i","o","n"," ","|"," ","1",".","5","0">>, amounts |-> <<150>>, source |-> "cost_pdf" ]
CostB == [ description |-> <<"F","e","e"," ","|"," ","-","2",".","0","0">>, amounts |-> <<-200>>, source |-> "cost_pdf" ]

SampleCostPdfs == { <<>>, << <<CostA>> >>, << <<CostA>>, <<CostB>> >> }

----------------------------------------------------------------------------
(* One run of main *)

Init ==
    /\ \E dir \in Directories : pdf_files = Sorted(Glob(dir))
    /\ file_no = 1
    /\ all_dividends = <<>>
    /\ all_9a_trades = <<>>
    /\ all_16b_summaries = <<>>
    /\ all_costs = <<>>
    /\ written = <<>>
    /\ log = <<>>
    /\ pc = "loop"
    /\ SymIdle
    /\ DocIdle
    /\ FetchIdle
    /\ RowIdle

\* the loop is at a file of the given category
AtFile(category) ==
    /\ pc = "loop"
    /\ file_no <= Len(pdf_files)
    /\ Classify(pdf_files[file_no]) = category

\* what one iteration did: the routine it called (or the reason it called
\* none), the st_size it read (0 when it read none), whether a call into the
\* PDF library raised, the records the routine had collected by then, and
\* the records it returned
Logged(routine, st_size, raised, collected, returned) ==
    Append(log, [ name |-> pdf_files[file_no], routine |-> routine,
                  st_size |-> st_size, raised |-> raised,
                  collected |-> collected, returned |-> returned ])

\* extract_dividends_pdf ran to its end: it had collected raw and returned
\* the deduplicated records
DividendsEntry(name, raw) ==
    [ name |-> name, routine |-> "extract_dividends_pdf", st_size |-> 0,
      raised |-> FALSE, collected |-> raw, returned |-> Deduplicate(raw) ]

\* extract_9a_trades, extract_16b_summary and extract_costs catch the
\* exception, print a warning and return the records collected so far
RoutineEntry(name, routine, st_size, raised, collected) ==
    [ name |-> name, routine |-> routine, st_size |-> st_size,
      raised |-> raised, collected |-> collected, returned |-> collected ]

\* records = extract_dividends_pdf(...); all_dividends.extend(records)
ProcessDividends ==
    /\ AtFile("dividend")
    /\ \E pages \in SampleDividendPdfs :
          log' = Append(log, DividendsEntry(pdf_files[file_no], RawRecords(pages)))
    /\ all_dividends' = all_dividends \o log'[Len(log')].returned
    /\ file_no' = file_no + 1
    /\ UNCHANGED <<pdf_files, all_9a_trades, all_16b_summaries, all_costs, written, pc>>
    /\ UNCHANGED <<symvars, docvars, fetchvars, rowvars>>

\* extract_dividends_pdf has no try: an exception of the PDF library leaves
\* it, and main, which has none either
DividendsRaise ==
    /\ AtFile("dividend")
    /\ \E pages \in SampleDividendPdfs : \E o \in Outcomes(pages) :
          /\ o.raises
          /\ log' = Logged("extract_dividends_pdf", 0, TRUE,
                           CollectedDividends(pages, o.done), <<>>)
    /\ pc' = "crashed"
    /\ UNCHANGED <<pdf_files, file_no, all_dividends, all_9a_trades,
                   all_16b_summaries, all_costs, written>>
    /\ UNCHANGED <<symvars, docvars, fetchvars, rowvars>>

\* the 9A branch, size_mb > 50
SkipLargeTrades ==
    /\ AtFile("9a")
    /\ \E st_size \in SampleSizes :
          /\ TooLarge(st_size, LargeTradeMb)
          /\ log' = Logged("skip_large", st_size, FALSE, <<>>, <<>>)
    /\ file_no' = file_no + 1
    /\ UNCHANGED <<pdf_files, all_dividends, all_9a_trades, all_16b_summaries,
                   all_costs, written, pc>>
    /\ UNCHANGED <<symvars, docvars, fetchvars, rowvars>>

\* records = extract_9a_trades(...); all_9a_trades.extend(records)
ProcessTrades ==
    /\ AtFile("9a")
    /\ \E st_size \in SampleSizes : \E pages \in Sample9aPdfs : \E o \in Outcomes(pages) :
          /\ ~TooLarge(st_size, LargeTradeMb)
          /\ log' = Append(log, RoutineEntry(pdf_files[file_no], "extract_9a_trades",
                                             st_size, o.raises, Collected(pages, o.done)))
    /\ all_9a_trades' = all_9a_trades \o log'[Len(log')].returned
    /\ file_no' = file_no + 1
    /\ UNCHANGED <<pdf_files, all_dividends, all_16b_summaries, all_costs, written, pc>>
    /\ UNCHANGED <<symvars, docvars, fetchvars, rowvars>>

\* the 16B branch, size_mb > 30
SkipLargeSummary ==
    /\ AtFile("16b")
    /\ \E st_size \in SampleSizes :
          /\ TooLarge(st_size, LargeSummaryMb)
          /\ log' = Logged("skip_large", st_size, FALSE, <<>>, <<>>)
    /\ file_no' = file_no + 1
    /\ UNCHANGED <<pdf_files, all_dividends, all_9a_trades, all_16b_summaries,
                   all_costs, written, pc>>
    /\ UNCHANGED <<symvars, docvars, fetchvars, rowvars>>

\* records = extract_16b_summary(...); all_16b_summaries.extend(records)
ProcessSummary ==
    /\ AtFile("16b")
    /\ \E st_size \in SampleSizes : \E pages \in Sample16bPdfs :
       \E o \in Outcomes(FirstPages(pages)) :
          /\ ~TooLarge(st_size, LargeSummaryMb)
          /\ log' = Append(log, RoutineEntry(pdf_files[file_no], "extract_16b_summary",
                                             st_size, o.raises,
                                             Collected(FirstPages(pages), o.done)))
    /\ all_16b_summaries' = all_16b_summaries \o log'[Len(log')].returned
    /\ file_no' = file_no + 1
    /\ UNCHANGED <<pdf_files, all_dividends, all_9a_trades, all_costs, written, pc>>
    /\ UNCHANGED <<symvars, docvars, fetchvars, rowvars>>

\* records = extract_costs(...); all_costs.extend(records)
ProcessCosts ==
    /\ AtFile("cost")
    /\ \E pages \in SampleCostPdfs : \E o \in Outcomes(pages) :
          log' = Append(log, RoutineEntry(pdf_files[file_no], "extract_costs",
                                          0, o.raises, Collected(pages, o.done)))
    /\ all_costs' = all_costs \o log'[Len(log')].returned
    /\ file_no' = file_no + 1
    /\ UNCHANGED <<pdf_files, all_dividends, all_9a_trades, all_16b_summaries, written, pc>>
    /\ UNCHANGED <<symvars, docvars, fetchvars, rowvars>>

\* the else branch: unknown type
SkipUnknown ==
    /\ AtFile("unknown")
    /\ log' = Logged("skip_unknown", 0, FALSE, <<>>, <<>>)
    /\ file_no' = file_no + 1
    /\ UNCHANGED <<pdf_files, all_dividends, all_9a_trades, all_16b_summaries,
                   all_costs, written, pc>>
    /\ UNCHANGED <<symvars, docvars, fetchvars, rowvars>>

\* after the loop: the Save results block
SaveResults ==
    /\ pc = "loop"
    /\ file_no > Len(pdf_files)
    /\ written' = SavedFiles(all_dividends, all_9a_trades, all_16b_summaries, all_costs)
    /\ pc' = "done"
    /\ UNCHANGED <<pdf_files, file_no, all_dividends, all_9a_trades,
                   all_16b_summaries, all_costs, log>>
    /\ UNCHANGED <<symvars, docvars, fetchvars, rowvars>>

Next ==
    \/ ProcessDividends
    \/ DividendsRaise
    \/ SkipLargeTrades
    \/ ProcessTrades
    \/ SkipLargeSummary
    \/ ProcessSummary
    \/ ProcessCosts
    \/ SkipUnknown
    \/ SaveResults

Spec == Init /\ [][Next]_vars

----------------------------------------------------------------------------
(* Claims about the batch driver *)

\* C4: a failure while one PDF is opened or read is recovered, whichever of
\* the four document types the file has: the run does not end there (the
\* loop goes on to the remaining files and the Save results block runs), and
\* the records the routine had collected from the file are the records it
\* returns.
C4_FailureRecovered ==
    \A i \in 1..Len(log) :
        log[i].raised => /\ pc # "crashed"
                        /\ log[i].returned = log[i].collected

\* C5: in dividends.json, accumulated over all dividend files of the
\* directory, no two records share the triple (symbol, date, amount).
C5_UniqueInOutput ==
    "dividends.json" \in DOMAIN written =>
        \A i, j \in 1..Len(written["dividends.json"]) :
            C6_Triple(written["dividends.json"][i]) = C6_Triple(written["dividends.json"][j])
                => i = j

\* the keyword sets in the order the claim gives them
C8_KeywordSets ==
    << { <<"d","i","v","i","d","e","n","d">> },
       { <<"9","a">> },
       { <<"1","6","b">> },
       { <<"k","u","s","t","a","n","n","u","s">>, <<"c","o","s","t">> } >>

\* keyword occurs in name, letter case ignored
C8_Occurs(keyword, name) ==
    \E at \in 1..Len(name) :
        /\ at + Len(keyword) - 1 <= Len(name)
        /\ \A i \in 1..Len(keyword) : LowerOf(name[at + i - 1]) = keyword[i]

\* the first set with a keyword that occurs in the name, 0 when there is none
C8_Category(name) ==
    LET matching == {k \in 1..4 : \E keyword \in C8_KeywordSets[k] : C8_Occurs(keyword, name)}
    IN IF matching = {} THEN 0 ELSE CHOOSE k \in matching : \A m \in matching : k <= m

\* what the loop may do with a file of each category
C8_Routines ==
    [ k \in 0..4 |->
        CASE k = 0 -> {"skip_unknown"}
          [] k = 1 -> {"extract_dividends_pdf"}
          [] k = 2 -> {"extract_9a_trades", "skip_large"}
          [] k = 3 -> {"extract_16b_summary", "skip_large"}
          [] k = 4 -> {"extract_costs"} ]

C8_Step ==
    Len(log') = Len(log) + 1 =>
        LET k == C8_Category(pdf_files[file_no]) IN
        /\ log'[Len(log')].name = pdf_files[file_no]
        /\ log'[Len(log')].routine \in C8_Routines[k]
        /\ k # 1 => all_dividends' = all_dividends
        /\ k # 2 => all_9a_trades' = all_9a_trades
        /\ k # 3 => all_16b_summaries' = all_16b_summaries
        /\ k # 4 => all_costs' = all_costs

\* C8: every step of the loop treats its file as the first of the keyword
\* sets dividend, 9a, 16b, cost that matches the lower-cased name says, skips
\* a file that matches none, and changes no accumulator but the one of that
\* category.
C8_FirstMatchWins == [][C8_Step]_vars

\* a file with dividend and 9a in its name went to the dividend routine, a
\* file with 16b and cost in its name to the summary routine
C8_Witness ==
    /\ Len(log) = 2
    /\ log[1].name = <<"1","6","B","_","c","o","s","t",".","p","d","f">>
    /\ log[1].routine = "extract_16b_summary"
    /\ log[2].name = <<"D","i","v","i","d","e","n","d","_","9","A",".","p","d","f">>
    /\ log[2].routine = "extract_dividends_pdf"
    /\ all_16b_summaries = log[1].returned /\ log[1].returned # <<>>
    /\ all_dividends = log[2].returned /\ log[2].returned # <<>>
    /\ all_9a_trades = <<>>
    /\ all_costs = <<>>

\* the limits of the claim, in bytes
C9_Limit(k) == IF k = 2 THEN 50 * 1048576 ELSE 30 * 1048576

C9_Step ==
    Len(log') = Len(log) + 1 /\ C8_Category(pdf_files[file_no]) \in {2, 3} =>
        LET k == C8_Category(pdf_files[file_no])
            entry == log'[Len(log')]
        IN IF entry.st_size > C9_Limit(k)
           THEN /\ entry.routine = "skip_large"
                /\ UNCHANGED <<all_dividends, all_9a_trades, all_16b_summaries, all_costs>>
           ELSE /\ entry.routine = (IF k = 2 THEN "extract_9a_trades" ELSE "extract_16b_summary")
                /\ IF k = 2
                   THEN all_9a_trades' = all_9a_trades \o entry.returned
                   ELSE all_16b_summaries' = all_16b_summaries \o entry.returned

\* C9: a trade file of more than 50 MB and a summary file of more than 30 MB
\* is skipped, no routine is called for it and no accumulator changes; a
\* trade file of at most 50 MB and a summary file of at most 30 MB goes to
\* its routine, whose records are added to its accumulator.
C9_CircuitBreaker == [][C9_Step]_vars

\* a trade file of 51 MB was skipped, and one of exactly 50 MB was processed
C9_Witness ==
    /\ Len(log) = 2
    /\ log[1].routine = "skip_large" /\ log[1].st_size = 51 * 1048576
    /\ C8_Category(log[1].name) = 2
    /\ log[2].routine = "extract_9a_trades" /\ log[2].st_size = 50 * 1048576
    /\ log[2].returned # <<>>
    /\ all_9a_trades = log[2].returned
    /\ all_costs = <<>>

\* the records the files contributed to a category, in the order of the log
C10_Accumulated(routine) ==
    LET upto[i \in 0..Len(log)] ==
            IF i = 0 THEN <<>>
            ELSE upto[i - 1] \o (IF log[i].routine = routine THEN log[i].returned ELSE <<>>)
    IN upto[Len(log)]

C10_RoutineOf ==
    [ f \in {"dividends.json", "9a_trades.json", "16b_summaries.json", "costs.json"} |->
        CASE f = "dividends.json" -> "extract_dividends_pdf"
          [] f = "9a_trades.json" -> "extract_9a_trades"
          [] f = "16b_summaries.json" -> "extract_16b_summary"
          [] f = "costs.json" -> "extract_costs" ]

\* C10: when a run completes, the files were visited in increasing order of
\* their names, and the output file of a category exists if and only if the
\* files contributed a record to the category; it then holds what they
\* contributed, in that order.
C10_WrittenIffNonEmpty ==
    pc = "done" =>
        /\ Len(log) = Len(pdf_files)
        /\ \A i \in 1..Len(log) : log[i].name = pdf_files[i]
        /\ \A i, j \in 1..Len(log) : i < j => StrLess(log[i].name, log[j].name)
        /\ DOMAIN written \subseteq DOMAIN C10_RoutineOf
        /\ \A f \in DOMAIN C10_RoutineOf :
              /\ f \in DOMAIN written <=> C10_Accumulated(C10_RoutineOf[f]) # <<>>
              /\ f \in DOMAIN written => written[f] = C10_Accumulated(C10_RoutineOf[f])

\* the end-to-end example: one dividend PDF with one row
C10_Witness ==
    /\ pc = "done"
    /\ pdf_files = << <<"d","i","v","i","d","e","n","d","s","_","U","1",".","p","d","f">> >>
    /\ DOMAIN written = {"dividends.json"}
    /\ written["dividends.json"] =
          << [ symbol |-> <<"A","A","P","L">>, date |-> <<"2","0","2","4","-","0","1","-","1","5">>, amount |-> 150,
               raw_amount |-> 150, source |-> "lynx_pdf" ] >>

----------------------------------------------------------------------------
(* tools/yfinance_fetch.py: fetch_dividends and cmd_dividends. What the      *)
(* provider does for one symbol is [dividends, currency, raises]: the series *)
(* ticker.dividends as a sequence of [ex_date, amount] (empty for None or an *)
(* empty series), ticker.info's currency, and the call that raises an        *)
(* exception: "none", "dividends" (yf.Ticker or ticker.dividends) or "info"  *)
(* (ticker.info, read in the loop over the series).                          *)

\* fetch_dividends(yahoo_symbol, ib_symbol, exchange, isin): the records,
\* <<>> for None
FetchDividends(yahoo, ib, exch, isin, provider) ==
    IF provider.raises = "dividends" THEN <<>>
    ELSE IF provider.dividends = <<>> THEN <<>>
    ELSE IF provider.raises = "info" THEN <<>>
    ELSE [ i \in 1..Len(provider.dividends) |->
             [ symbol |-> ib, yahoo_symbol |-> yahoo, exchange |-> exch, isin |-> isin,
               ex_date |-> provider.dividends[i].ex_date,
               amount |-> provider.dividends[i].amount,
               currency |-> provider.currency ] ]

\* safe_name = yahoo.replace("/", "_"); save_json builds f"{filename}.json"
SafeName(yahoo) == Replace(yahoo, <<"/">>, <<"_">>) \o <<".","j","s","o","n">>

\* save_json(records, "dividends", safe_name): the files of csv_data/dividends
\* after it
SaveJson(files, filename, data) ==
    [f \in DOMAIN files \cup {filename} |-> IF f = filename THEN data ELSE files[f]]

\* a mutant of ShouldSave: a file is written whatever fetch_dividends returned
ShouldSave_Always(recs) == recs = recs

\* if records:
ShouldSave(recs) == recs # <<>>

\* if records: save_json(records, "dividends", safe_name)
AfterSave(files, yahoo, recs) ==
    IF ShouldSave(recs) THEN SaveJson(files, SafeName(yahoo), recs) ELSE files

\* one fetch: the entry, its provider symbol, what the provider did and what
\* fetch_dividends returned
FetchStep(entry, yahoo, provider) ==
    [ entry |-> entry, yahoo |-> yahoo, provider |-> provider,
      records |-> FetchDividends(yahoo, entry.symbol, entry.exchange, entry.isin, provider) ]

\* args.symbol in ("--all", "all", None)
AllSymbols(arg) == arg \in { <<"-","-","a","l","l">>, <<"a","l","l">> }

----------------------------------------------------------------------------
(* Inputs of cmd_dividends *)

MaxHoldings == 3

\* rows of the holdings table: a rule-based symbol, an override, a symbol
\* with a space and one with a slash
SampleHoldings ==
    { [symbol |-> <<"N","O","K","I","A">>, exchange |-> "HEX", isin |-> "FI0009000681"],
      [symbol |-> <<"K","E","K">>, exchange |-> "HEX", isin |-> "FI0009000202"],
      [symbol |-> <<"B","R","K"," ","B">>, exchange |-> "NYSE", isin |-> "None"],
      [symbol |-> <<"B","T","/","A">>, exchange |-> "LSE", isin |-> "None"] }

\* the lists of at most n different holdings
RECURSIVE HoldingsUpTo(_)
HoldingsUpTo(n) ==
    IF n = 0 THEN {<<>>}
    ELSE LET shorter == HoldingsUpTo(n - 1) IN
         shorter \cup {Append(s, x) : s \in {t \in shorter : Len(t) = n - 1},
                                      x \in SampleHoldings}

Holdings ==
    {s \in HoldingsUpTo(MaxHoldings) : \A i, j \in 1..Len(s) : s[i] = s[j] => i = j}

\* a command line: all symbols, or one provider symbol
ArgSymbols == { <<"-","-","a","l","l">>, <<"a","l","l">>, <<"K","E","S","K","O","B",".","H","E">> }

DividendA == [ex_date |-> <<"2","0","2","4","-","0","4","-","0","5">>, amount |-> 130000]
DividendB == [ex_date |-> <<"2","0","2","4","-","1","0","-","0","4">>, amount |-> 50000]

\* what the provider may do for a symbol
Providers ==
    { [dividends |-> <<>>, currency |-> "EUR", raises |-> "dividends"],
      [dividends |-> <<>>, currency |-> "EUR", raises |-> "none"],
      [dividends |-> <<DividendA>>, currency |-> "EUR", raises |-> "info"],
      [dividends |-> <<DividendA>>, currency |-> "EUR", raises |-> "none"],
      [dividends |-> <<DividendA, DividendB>>, currency |-> "USD", raises |-> "none"] }

----------------------------------------------------------------------------
(* One run of cmd_dividends *)

InitFetch ==
    /\ args_symbol \in ArgSymbols
    /\ symbols \in IF AllSymbols(args_symbol) THEN Holdings ELSE {<<>>}
    /\ entry_no = 1
    /\ fetched = <<>>
    /\ saved = <<>>
    /\ pc = "cmd_dividends"
    /\ SymIdle
    /\ DocIdle
    /\ BatchIdle
    /\ RowIdle

\* if not symbols: print("No symbols found in database"); return
NoSymbols ==
    /\ pc = "cmd_dividends"
    /\ AllSymbols(args_symbol)
    /\ symbols = <<>>
    /\ pc' = "done"
    /\ UNCHANGED <<args_symbol, symbols, entry_no, fetched, saved>>
    /\ UNCHANGED <<symvars, docvars, batchvars, rowvars>>

\* one iteration of for entry in symbols
FetchEntry ==
    /\ pc = "cmd_dividends"
    /\ AllSymbols(args_symbol)
    /\ entry_no <= Len(symbols)
    /\ \E provider \in Providers :
          fetched' = Append(fetched,
                            FetchStep(symbols[entry_no],
                                      GetYahooSymbol(symbols[entry_no].symbol,
                                                     symbols[entry_no].exchange),
                                      provider))
    /\ saved' = AfterSave(saved, fetched'[Len(fetched')].yahoo, fetched'[Len(fetched')].records)
    /\ entry_no' = entry_no + 1
    /\ UNCHANGED <<args_symbol, symbols, pc>>
    /\ UNCHANGED <<symvars, docvars, batchvars, rowvars>>

\* the loop over a non-empty list has ended
EndOfSymbols ==
    /\ pc = "cmd_dividends"
    /\ AllSymbols(args_symbol)
    /\ symbols # <<>>
    /\ entry_no > Len(symbols)
    /\ pc' = "done"
    /\ UNCHANGED <<args_symbol, symbols, entry_no, fetched, saved>>
    /\ UNCHANGED <<symvars, docvars, batchvars, rowvars>>

\* the else branch: yahoo = args.symbol; fetch_dividends(yahoo, yahoo, "")
FetchOne ==
    /\ pc = "cmd_dividends"
    /\ ~AllSymbols(args_symbol)
    /\ \E provider \in Providers :
          fetched' = Append(fetched,
                            FetchStep([symbol |-> args_symbol, exchange |-> "", isin |-> "None"],
                                      args_symbol, provider))
    /\ saved' = AfterSave(saved, fetched'[Len(fetched')].yahoo, fetched'[Len(fetched')].records)
    /\ pc' = "done"
    /\ UNCHANGED <<args_symbol, symbols, entry_no>>
    /\ UNCHANGED <<symvars, docvars, batchvars, rowvars>>

NextFetch == NoSymbols \/ FetchEntry \/ EndOfSymbols \/ FetchOne

SpecFetch == InitFetch /\ [][NextFetch]_vars

----------------------------------------------------------------------------
(* Claims about cmd_dividends *)

\* the name of the file of a provider symbol
C11_FileName(yahoo) ==
    [i \in 1..Len(yahoo) |-> IF yahoo[i] = "/" THEN "_" ELSE yahoo[i]] \o <<".","j","s","o","n">>

\* the provider gave data and raised nothing
C11_Data(provider) == provider.raises = "none" /\ provider.dividends # <<>>

\* the entries fetched so far are the first entries of the list, each once and
\* in order, and a run that has ended has fetched them all
C11_EachOnceInOrder ==
    AllSymbols(args_symbol) =>
        /\ pc \in {"cmd_dividends", "done"}
        /\ Len(fetched) = entry_no - 1
        /\ Len(fetched) <= Len(symbols)
        /\ \A i \in 1..Len(fetched) :
              /\ fetched[i].entry = symbols[i]
              /\ fetched[i].yahoo = GetYahooSymbol(symbols[i].symbol, symbols[i].exchange)
        /\ pc = "done" => Len(fetched) = Len(symbols)

\* a fetch without data writes nothing; a fetch with data returns a non-empty
\* list and writes it to the file of its provider symbol, and to no other
C11_Step ==
    AllSymbols(args_symbol) /\ Len(fetched') = Len(fetched) + 1 =>
        LET done == fetched'[Len(fetched')] IN
        IF C11_Data(done.provider)
        THEN /\ done.records # <<>>
             /\ DOMAIN saved' = DOMAIN saved \cup {C11_FileName(done.yahoo)}
             /\ saved'[C11_FileName(done.yahoo)] = done.records
             /\ \A f \in DOMAIN saved \ {C11_FileName(done.yahoo)} : saved'[f] = saved[f]
        ELSE /\ done.records = <<>>
             /\ saved' = saved

\* C11: in a fetch-all run every holdings entry is translated and fetched
\* exactly once, in list order, whatever the fetches before it did; a fetch
\* that returns no data or raises writes no file, and a fetch that returns
\* records writes the file named after its provider symbol.
C11_PerSymbolFailure == []C11_EachOnceInOrder /\ [][C11_Step]_vars

\* a run over three holdings has ended: the first fetch raised, the second had
\* no data, the third returned records, and only the third wrote a file
C11_Witness ==
    /\ pc = "done"
    /\ AllSymbols(args_symbol)
    /\ Len(fetched) = 3
    /\ fetched[1].provider.raises # "none"
    /\ fetched[2].provider.raises = "none" /\ fetched[2].provider.dividends = <<>>
    /\ C11_Data(fetched[3].provider)
    /\ fetched[3].entry.symbol = <<"B","T","/","A">>
    /\ DOMAIN saved = { <<"B","T","_","A",".","L",".","j","s","o","n">> }
    /\ \A f \in DOMAIN saved : Len(saved[f]) = 2

----------------------------------------------------------------------------
(* scripts/extract_lynx_pdfs.py: parse_9a_trade_row *)

\* the index after the digits that start at index at
RECURSIVE DigitRunEnd(_, _)
DigitRunEnd(s, at) ==
    IF at <= Len(s) /\ s[at] \in Digits THEN DigitRunEnd(s, at + 1) ELSE at

\* [\d,]+\.?\d+ on a string without commas, from the digits at d that end
\* before e: with a point and digits after them the match ends after those
\* digits; without, it needs two digits and ends at e; 0 for no match
TradeAmountEndOf(s, d, e) ==
    IF e = d THEN 0
    ELSE IF e < Len(s) /\ s[e] = "." /\ s[e + 1] \in Digits THEN DigitRunEnd(s, e + 1)
    ELSE IF e - d >= 2 THEN e
    ELSE 0

\* the index after the match of amount_pattern -?[\d,]+\.?\d+ that starts at
\* index at, 0 when none starts there
TradeAmountEnd(s, at) ==
    IF s[at] = "-"
    THEN TradeAmountEndOf(s, at + 1, DigitRunEnd(s, at + 1))
    ELSE TradeAmountEndOf(s, at, DigitRunEnd(s, at))

RECURSIVE FindAmounts(_, _)

\* the match that starts at index at and ends before e, if any, and the
\* matches after it
FindAmountsFrom(s, at, e) ==
    IF e = 0 THEN FindAmounts(s, at + 1)
    ELSE <<Float(SubSeq(s, at, e - 1))>> \o FindAmounts(s, e)

\* [float(m.group()) for m in amount_pattern.finditer(s)] from index at on
FindAmounts(s, at) ==
    IF at > Len(s) THEN <<>> ELSE FindAmountsFrom(s, at, TradeAmountEnd(s, at))

\* [m.group() for m in date_pattern.finditer(cell)] from index at on
RECURSIVE FindDates(_, _)
FindDates(cell, at) ==
    IF at + 9 > Len(cell) THEN <<>>
    ELSE IF IsoDateAt(cell, at) THEN <<SubSeq(cell, at, at + 9)>> \o FindDates(cell, at + 10)
    ELSE FindDates(cell, at + 1)

\* if len(dates) >= 1 and len(amounts) >= 1: symbol = cleaned[0] if cleaned[0]
\* and len(cleaned[0]) <= 15 else None; if symbol: return {...}
TradeRecord(cleaned, dates, amounts) ==
    IF /\ Len(dates) >= 1 /\ Len(amounts) >= 1
       /\ cleaned[1] # <<>> /\ Len(cleaned[1]) <= 15
    THEN << [ symbol |-> cleaned[1], date |-> dates[1], amounts |-> amounts,
              source |-> "9a_pdf" ] >>
    ELSE <<>>

\* the loop over the cells of parse_9a_trade_row
ParseTradeCells(cleaned) ==
    TradeRecord(cleaned,
                Concat([i \in 1..Len(cleaned) |-> FindDates(cleaned[i], 1)]),
                Concat([i \in 1..Len(cleaned) |->
                           FindAmounts(Replace(cleaned[i], <<",">>, <<>>), 1)]))

\* parse_9a_trade_row(row): the record in a sequence, <<>> for None
Parse9aTradeRow(trade_row) ==
    IF Len(trade_row) < 4 THEN <<>> ELSE ParseTradeCells(Cleaned(trade_row))

----------------------------------------------------------------------------
(* Inputs of the row parsers *)

MaxCells == 4

\* cells: a symbol, an empty cell (or None), an ISO date, a slash date followed
\* by an ISO date, a dot date between blanks, an amount with a thousands
\* separator, a negative amount, and a number of one digit
SampleCells ==
    { <<"A","A","P","L">>, <<>>, <<"2","0","2","4","-","0","1","-","3","1">>, <<"3","1","/","0","1","/","2","0","2","4"," ","2","0","2","4","-","0","3","-","0","4">>, <<" ","3","1",".","0","1",".","2","0","2","4"," ">>,
      <<"1",",","2","3","4",".","5","6">>, <<"-","1",".","5","0">>, <<"5">> }

\* the rows of at most n cells
RECURSIVE RowsUpTo(_)
RowsUpTo(n) ==
    IF n = 0 THEN {<<>>}
    ELSE LET shorter == RowsUpTo(n - 1) IN
         shorter \cup {Append(r, c) : r \in {t \in shorter : Len(t) = n - 1},
                                      c \in SampleCells}

----------------------------------------------------------------------------
(* One table row, given to parse_dividend_row or to parse_9a_trade_row *)

InitRow ==
    /\ table_row \in RowsUpTo(MaxCells)
    /\ date_token = <<>>
    /\ dividend_record = <<>>
    /\ trade_record = <<>>
    /\ pc = "row"
    /\ SymIdle
    /\ DocIdle
    /\ BatchIdle
    /\ FetchIdle

\* record = parse_dividend_row(row)
ParseAsDividendRow ==
    /\ pc = "row"
    /\ date_token' = RowDateStr(Cleaned(table_row))
    /\ dividend_record' = ParseDividendRow(table_row)
    /\ pc' = "dividend_row_parsed"
    /\ UNCHANGED <<table_row, trade_record>>
    /\ UNCHANGED <<symvars, docvars, batchvars, fetchvars>>

\* record = parse_9a_trade_row(row)
ParseAsTradeRow ==
    /\ pc = "row"
    /\ trade_record' = Parse9aTradeRow(table_row)
    /\ pc' = "trade_row_parsed"
    /\ UNCHANGED <<table_row, date_token, dividend_record>>
    /\ UNCHANGED <<symvars, docvars, batchvars, fetchvars>>

NextRow == ParseAsDividendRow \/ ParseAsTradeRow

SpecRow == InitRow /\ [][NextRow]_vars

----------------------------------------------------------------------------
(* Claims about the row parsers *)

C12_Digit(c) == c \in {"0","1","2","3","4","5","6","7","8","9"}

\* s has the form YYYY-MM-DD
C12_IsoForm(s) ==
    /\ Len(s) = 10
    /\ \A i \in 1..10 : IF i \in {5, 8} THEN s[i] = "-" ELSE C12_Digit(s[i])

\* s has the day-first form DD/MM/YYYY or DD.MM.YYYY
C12_DayFirstForm(s) ==
    /\ Len(s) = 10
    /\ s[3] \in {"/", "."} /\ s[6] = s[3]
    /\ \A i \in (1..10) \ {3, 6} : C12_Digit(s[i])

\* year, month and day of a day-first date, in ISO order
C12_Reordered(s) == <<s[7], s[8], s[9], s[10], "-", s[4], s[5], "-", s[1], s[2]>>

\* C12: normalize_date turns the day-first slash and dot dates into
\* YYYY-MM-DD by reordering their groups and returns an ISO date unchanged,
\* so the date of every record of the table path has the form YYYY-MM-DD.
C12_DatesAreIso ==
    /\ NormalizeDate(<<"3","1","/","0","1","/","2","0","2","4">>) = <<"2","0","2","4","-","0","1","-","3","1">>
    /\ NormalizeDate(<<"3","1",".","0","1",".","2","0","2","4">>) = <<"2","0","2","4","-","0","1","-","3","1">>
    /\ NormalizeDate(<<"2","0","2","4","-","0","1","-","3","1">>) = <<"2","0","2","4","-","0","1","-","3","1">>
    /\ pc = "dividend_row_parsed" /\ date_token # <<>> =>
          /\ C12_IsoForm(date_token) \/ C12_DayFirstForm(date_token)
          /\ C12_IsoForm(date_token) => NormalizeDate(date_token) = date_token
          /\ C12_DayFirstForm(date_token) =>
                NormalizeDate(date_token) = C12_Reordered(date_token)
    /\ pc = "dividend_row_parsed" /\ dividend_record # <<>> =>
          /\ C12_IsoForm(dividend_record[1].date)
          /\ dividend_record[1].date =
                IF C12_IsoForm(date_token) THEN date_token ELSE C12_Reordered(date_token)

\* a row with a dot date between blanks gave a record with the ISO date
C12_Witness ==
    /\ pc = "dividend_row_parsed"
    /\ date_token = <<"3","1",".","0","1",".","2","0","2","4">>
    /\ dividend_record # <<>>
    /\ dividend_record[1].date = <<"2","0","2","4","-","0","1","-","3","1">>

\* the cell without the blanks around it
C13_Trimmed(cell) ==
    LET inside == {i \in 1..Len(cell) : cell[i] # " "} IN
    IF inside = {} THEN <<>>
    ELSE SubSeq(cell, CHOOSE i \in inside : \A j \in inside : i <= j,
                      CHOOSE i \in inside : \A j \in inside : j <= i)

\* the indices of a cell where a date of the given form starts
C13_DatesOfForm(cell, form) ==
    {at \in 1..(Len(cell) - 9) :
        IF form = "iso" THEN C12_IsoForm(SubSeq(cell, at, at + 9))
        ELSE /\ C12_DayFirstForm(SubSeq(cell, at, at + 9))
             /\ cell[at + 2] = (IF form = "slash" THEN "/" ELSE ".")}

C13_AllDates(cell) ==
    C13_DatesOfForm(cell, "iso") \cup C13_DatesOfForm(cell, "slash")
        \cup C13_DatesOfForm(cell, "dot")

C13_Least(S) == CHOOSE x \in S : \A y \in S : x <= y

\* the first cell of the row, trimmed, that holds a date; <<>> when none does
C13_FirstDateCell ==
    LET holding == {i \in 1..Len(table_row) : C13_AllDates(C13_Trimmed(table_row[i])) # {}}
    IN IF holding = {} THEN <<>> ELSE C13_Trimmed(table_row[C13_Least(holding)])

\* the date of the highest-priority form in a cell: ISO, then slash, then dot
C13_ByPriority(cell) ==
    LET form == IF C13_DatesOfForm(cell, "iso") # {} THEN "iso"
                ELSE IF C13_DatesOfForm(cell, "slash") # {} THEN "slash" ELSE "dot"
        at == C13_Least(C13_DatesOfForm(cell, form))
    IN SubSeq(cell, at, at + 9)

\* C13, as stated: the date token of a row is taken from its first cell that
\* holds a date, and in that cell it is the date of the highest-priority form
\* (ISO, then slash, then dot), wherever in the cell the dates stand.
C13_PatternPriority ==
    pc = "dividend_row_parsed" =>
        date_token = IF C13_FirstDateCell = <<>> THEN <<>>
                     ELSE C13_ByPriority(C13_FirstDateCell)

\* C13, amended: the date token of a row is taken from its first cell that
\* holds a date, and in that cell it is the date that stands first, of
\* whichever form; no two forms match at one index, so the order of the
\* alternatives never decides.
C13_LeftmostDate ==
    pc = "dividend_row_parsed" =>
        /\ \A i \in 1..Len(table_row) : \A at \in 1..Len(table_row[i]) :
              Cardinality({form \in {"iso", "slash", "dot"} :
                              at \in C13_DatesOfForm(table_row[i], form)}) <= 1
        /\ date_token =
              IF C13_FirstDateCell = <<>> THEN <<>>
              ELSE SubSeq(C13_FirstDateCell, C13_Least(C13_AllDates(C13_FirstDateCell)),
                          C13_Least(C13_AllDates(C13_FirstDateCell)) + 9)

\* the first date cell of the row holds a slash date before an ISO date, a
\* later cell holds another date, and the slash date is the token
C13_Witness ==
    /\ pc = "dividend_row_parsed"
    /\ C13_FirstDateCell = <<"3","1","/","0","1","/","2","0","2","4"," ","2","0","2","4","-","0","3","-","0","4">>
    /\ \E i, j \in 1..Len(table_row) :
          i < j /\ table_row[i] = C13_FirstDateCell /\ table_row[j] = <<"2","0","2","4","-","0","1","-","3","1">>
    /\ date_token = <<"3","1","/","0","1","/","2","0","2","4">>

\* the numbers of a string without thousands separators, from index at on: an
\* optional minus, digits, and an optional point with digits after it
RECURSIVE C14_Numbers(_, _)
C14_Numbers(s, at) ==
    IF at > Len(s) THEN <<>>
    ELSE LET d == IF s[at] = "-" THEN at + 1 ELSE at
             e == DigitRunEnd(s, d)
             f == IF e < Len(s) /\ s[e] = "." /\ C12_Digit(s[e + 1])
                  THEN DigitRunEnd(s, e + 1) ELSE e
         IN IF e = d THEN C14_Numbers(s, at + 1)
            ELSE <<Float(SubSeq(s, at, f - 1))>> \o C14_Numbers(s, f)

\* the ISO dates of a cell, from index at on
RECURSIVE C14_Dates(_, _)
C14_Dates(cell, at) ==
    IF at + 9 > Len(cell) THEN <<>>
    ELSE IF C12_IsoForm(SubSeq(cell, at, at + 9))
         THEN <<SubSeq(cell, at, at + 9)>> \o C14_Dates(cell, at + 10)
         ELSE C14_Dates(cell, at + 1)

\* what is found in the cells up to cell n, in cell order
RECURSIVE C14_RowDates(_)
C14_RowDates(n) ==
    IF n = 0 THEN <<>>
    ELSE C14_RowDates(n - 1) \o C14_Dates(C13_Trimmed(table_row[n]), 1)

RECURSIVE C14_RowNumbers(_)
C14_RowNumbers(n) ==
    IF n = 0 THEN <<>>
    ELSE C14_RowNumbers(n - 1)
           \o C14_Numbers(SelectSeq(C13_Trimmed(table_row[n]), LAMBDA c : c # ","), 1)

\* C14: parse_9a_trade_row emits a record if and only if the row has at least
\* four cells, an ISO date and a number are found in its cells, and its first
\* cell is non-empty and at most 15 characters long; the record holds the
\* first cell as symbol, the first date found, and all the numbers found in
\* all cells, those of the date cell included, in cell order.
C14_AllNumbersOfTheRow ==
    pc = "trade_row_parsed" =>
        /\ trade_record # <<>> <=>
              /\ Len(table_row) >= 4
              /\ C14_RowDates(Len(table_row)) # <<>>
              /\ C14_RowNumbers(Len(table_row)) # <<>>
              /\ C13_Trimmed(table_row[1]) # <<>>
              /\ Len(C13_Trimmed(table_row[1])) <= 15
        /\ trade_record # <<>> =>
              /\ trade_record[1].symbol = C13_Trimmed(table_row[1])
              /\ trade_record[1].date = C14_RowDates(Len(table_row))[1]
              /\ trade_record[1].amounts = C14_RowNumbers(Len(table_row))

====
